---- MODULE Spec2Model ----
(***************************************************************************)
(* A model of chebi_tools.ChEBIGraph (src/chebi_tools/ChEBIGraph.py).      *)
(*                                                                         *)
(* self.G is a networkx MultiDiGraph as obonet builds it: a set of node    *)
(* ids, a set of edges <<source, target, key>> whose key is the relation   *)
(* type, and per node an attribute record that may hold "property_value",  *)
(* a list of property-fact strings.  Text is a sequence of one-character   *)
(* strings, so that substring search, split, isalpha and float() are       *)
(* computed on the characters.  A float is a fixed-point number counted in *)
(* thousandths.                                                            *)
(***************************************************************************)
EXTENDS Integers, Sequences, FiniteSets, TLC

VARIABLES
    nodes,      \* self.G: node ids
    edges,      \* self.G: edges <<u, v, key>>
    props,      \* self.G.nodes[n]: the node's attribute record
    df,         \* self.df: the attribute table, id -> row
    pc,         \* where the running call stands
    call,       \* the method invoked last, with its arguments
    result,     \* what the last call returned
    err,        \* the exception that left the last call, or "none"
    log,        \* what logging.warning has written, in order
    G0,         \* the graph handed to the constructor
    Goligo      \* the graph when remove_oligopeptides was entered

vars == <<nodes, edges, props, df, pc, call, result, err, log, G0, Goligo>>

(***************************************************************************)
(* Bounds of the model.                                                    *)
(***************************************************************************)
MaxDepth == 3
MaxFacts == 2
MaxGroup == 3

(***************************************************************************)
(* Anchor tokens and relation types of the pruning pipeline.               *)
(***************************************************************************)
DEUTERATED == "CHEBI:76107"
DIPEPTIDE == "CHEBI:46761"
TRIPEPTIDE == "CHEBI:47923"
TETRAPEPTIDE == "CHEBI:48030"
PENTAPEPTIDE == "CHEBI:48545"
OLIGOPEPTIDE == "CHEBI:25676"
ISOTOPIC == "CHEBI:139358"

edge_types_to_keep ==
    {"is_conjugate_acid_of", "is_conjugate_base_of", "is_enantiomer_of",
     "is_tautomer_of", "is_a"}

MinMass == 50
MaxMass == 1500

Range(s) == {s[i] : i \in DOMAIN s}

(***************************************************************************)
(* Text.                                                                   *)
(***************************************************************************)
Digits == {"0", "1", "2", "3", "4", "5", "6", "7", "8", "9"}
Letters ==
    {"a", "b", "c", "d", "e", "f", "g", "h", "i", "j", "k", "l", "m", "n", "o",
     "p", "q", "r", "s", "t", "u", "v", "w", "x", "y", "z",
     "C", "D", "G", "H", "N", "O", "R"}

DigitValue(c) ==
    CASE c = "0" -> 0 [] c = "1" -> 1 [] c = "2" -> 2 [] c = "3" -> 3
      [] c = "4" -> 4 [] c = "5" -> 5 [] c = "6" -> 6 [] c = "7" -> 7
      [] c = "8" -> 8 [] c = "9" -> 9

\* sub in s
Contains(s, sub) ==
    \E i \in 1..(Len(s) - Len(sub) + 1) : SubSeq(s, i, i + Len(sub) - 1) = sub

\* s.split('"'): the pieces between the double quotes, from position from on
RECURSIVE Pieces(_, _)
Pieces(s, from) ==
    LET next == {i \in from..Len(s) : s[i] = "\""}
    IN  IF next = {}
        THEN <<SubSeq(s, from, Len(s))>>
        ELSE LET q == CHOOSE i \in next : \A j \in next : i <= j
             IN  <<SubSeq(s, from, q - 1)>> \o Pieces(s, q + 1)

SplitQuote(s) == Pieces(s, 1)

\* s.replace(' ', '')
RemoveSpaces(s) == SelectSeq(s, LAMBDA c : c # " ")

\* s.isalpha()
IsAlpha(s) == Len(s) > 0 /\ \A i \in 1..Len(s) : s[i] \in Letters

\* s.strip(), as float() applies it
RECURSIVE Strip(_)
Strip(s) ==
    IF s = <<>> THEN s
    ELSE IF Head(s) = " " THEN Strip(Tail(s))
    ELSE IF s[Len(s)] = " " THEN Strip(SubSeq(s, 1, Len(s) - 1))
    ELSE s

RECURSIVE DigitsValue(_)
DigitsValue(s) ==
    IF s = <<>> THEN 0
    ELSE 10 * DigitsValue(SubSeq(s, 1, Len(s) - 1)) + DigitValue(s[Len(s)])

\* The digits of a fraction, read as thousandths.
Thousandths(s) ==
    LET p == SubSeq(s \o <<"0", "0", "0">>, 1, 3) IN DigitsValue(p)

\* float(text): [ok, num], num in thousandths.  The texts of this model are
\* built from digits, ".", "-", letters that spell neither inf nor nan, and
\* punctuation, so a text is a number exactly when it is an optional sign and
\* digits with at most one point (and here at most three decimals).
NotAFloat == [ok |-> FALSE, num |-> 0]

FloatAtPoint(u, d) ==
    IF Len(u) - d > 3 THEN NotAFloat
    ELSE [ok |-> TRUE,
          num |-> 1000 * DigitsValue(SubSeq(u, 1, d - 1))
                    + Thousandths(SubSeq(u, d + 1, Len(u)))]

FloatOfPoints(u, dots) ==
    IF Cardinality(dots) > 1 THEN NotAFloat
    ELSE IF dots = {} THEN FloatAtPoint(u, Len(u) + 1)
    ELSE FloatAtPoint(u, CHOOSE i \in dots : TRUE)

FloatOfUnsigned(u) ==
    IF /\ \A i \in 1..Len(u) : u[i] \in Digits \cup {"."}
       /\ \E i \in 1..Len(u) : u[i] \in Digits
    THEN FloatOfPoints(u, {i \in 1..Len(u) : u[i] = "."})
    ELSE NotAFloat

Negated(f) == [ok |-> f.ok, num |-> 0 - f.num]

FloatOfStripped(t) ==
    IF t # <<>> /\ Head(t) = "-"
    THEN Negated(FloatOfUnsigned(Tail(t)))
    ELSE FloatOfUnsigned(t)

ToFloat(text) == FloatOfStripped(Strip(text))

(***************************************************************************)
(* Python values.                                                          *)
(***************************************************************************)
None == [kind |-> "None"]
Float(n) == [kind |-> "float", num |-> n]
Str(t) == [kind |-> "str", text |-> t]

(***************************************************************************)
(* networkx, as ChEBIGraph uses it.                                        *)
(***************************************************************************)
\* G.reverse(copy=True): every edge flipped, the key kept
Reverse(E) == {<<e[2], e[1], e[3]>> : e \in E}

\* G.to_undirected(): each edge can be followed both ways
ToUndirected(E) == E \cup Reverse(E)

Successors(E, S) == {e[2] : e \in {f \in E : f[1] \in S}}

\* single_source_shortest_path_length(G, n, cutoff): the nodes reached
RECURSIVE WithinCutoff(_, _, _)
WithinCutoff(E, S, cutoff) ==
    IF cutoff <= 0 THEN S
    ELSE LET T == S \cup Successors(E, S)
         IN  IF T = S THEN S ELSE WithinCutoff(E, T, cutoff - 1)

\* nx.ego_graph(G, n, radius, undirected=undirected)
ego_graph(N, E, n, radius, undirected) ==
    IF n \notin N
    THEN [raised |-> "NodeNotFound", nodes |-> {}, edges |-> {}]
    ELSE LET T == IF undirected THEN ToUndirected(E) ELSE E
             sp == WithinCutoff(T, {n}, radius)
         IN  [raised |-> "none", nodes |-> sp,
              edges |-> {e \in E : e[1] \in sp /\ e[2] \in sp}]

\* remove_nodes_from that forgets the edges at the removed nodes.
remove_nodes_keep_edges(N, E, S) == [nodes |-> N \ S, edges |-> E]

\* G.remove_nodes_from(S): the nodes and every edge incident to one of them
remove_nodes_from(N, E, S) ==
    [nodes |-> N \ S, edges |-> {e \in E : e[1] \notin S /\ e[2] \notin S}]

\* G.remove_edges_from(R), R holding <<u, v, key>> triples
remove_edges_from(E, R) == E \ R

(***************************************************************************)
(* ChEBIGraph.get_subgraph and remove_subgraph.                            *)
(***************************************************************************)
\* get_subgraph that never reverses the graph.
get_subgraph_forward(N, E, token, depth, undirected, reverse_graph) ==
    ego_graph(N, E, token, depth, undirected)

get_subgraph(N, E, token, depth, undirected, reverse_graph) ==
    LET G == IF reverse_graph THEN Reverse(E) ELSE E
        H == ego_graph(N, G, token, depth, undirected)
    IN  IF H.raised # "none" THEN H
        ELSE [H EXCEPT !.edges = IF reverse_graph THEN Reverse(@) ELSE @]

NodeNotFoundMessage(token) == <<"NodeNotFound", token>>

\* remove_subgraph without its try/except.
remove_subgraph_uncaught(N, E, token, depth, undirected, reverse_graph) ==
    LET a == ego_graph(N, IF reverse_graph THEN Reverse(E) ELSE E, token, depth,
                       undirected)
        g == remove_nodes_from(N, E, a.nodes)
    IN  [nodes |-> g.nodes, edges |-> g.edges, raised |-> a.raised,
         logged |-> <<>>]

remove_subgraph(N, E, token, depth, undirected, reverse_graph) ==
    LET a == get_subgraph(N, E, token, depth, undirected, reverse_graph)
    IN  IF a.raised = "NodeNotFound"
        THEN [nodes |-> N, edges |-> E, raised |-> "none",
              logged |-> <<NodeNotFoundMessage(token)>>]
        ELSE LET g == remove_nodes_from(N, E, a.nodes)
             IN  [nodes |-> g.nodes, edges |-> g.edges, raised |-> "none",
                  logged |-> <<>>]

(***************************************************************************)
(* ChEBIGraph.get_property_from_node and check_node.                       *)
(***************************************************************************)
NoPropertyValue == [has_property_value |-> FALSE, property_value |-> <<>>]
PropertyValue(facts) == [has_property_value |-> TRUE, property_value |-> facts]

\* "/" + prop + " " in string
FactMatches(string, prop) == Contains(string, <<"/">> \o prop \o <<" ">>)

\* The for loop of get_property_from_node: the last matching fact wins, and
\* string.split('"')[1] raises IndexError on a matching fact without a quote.
RECURSIVE ScanProperties(_, _, _)
ScanProperties(properties, prop, value) ==
    IF properties = <<>>
    THEN [raised |-> "none", value |-> value]
    ELSE LET string == Head(properties)
             pieces == SplitQuote(string)
         IN  IF ~FactMatches(string, prop)
             THEN ScanProperties(Tail(properties), prop, value)
             ELSE IF Len(pieces) < 2
             THEN [raised |-> "IndexError", value |-> None]
             ELSE ScanProperties(Tail(properties), prop, Str(pieces[2]))

\* The try: value = float(value) / except ValueError: pass
Coerced(text, f) ==
    [raised |-> "none", value |-> IF f.ok THEN Float(f.num) ELSE Str(text)]

CoerceFound(found) ==
    IF found.raised # "none" \/ found.value = None
    THEN found
    ELSE Coerced(found.value.text, ToFloat(found.value.text))

get_property_from_node(node, prop) ==
    IF ~node.has_property_value
    THEN [raised |-> "none", value |-> None]
    ELSE CoerceFound(ScanProperties(node.property_value, prop, None))

FORMULA == <<"f", "o", "r", "m", "u", "l", "a">>
MONOISOTOPICMASS ==
    <<"m", "o", "n", "o", "i", "s", "o", "t", "o", "p", "i", "c", "m", "a", "s", "s">>
CHARGE == <<"c", "h", "a", "r", "g", "e">>
MASS == <<"m", "a", "s", "s">>

\* check_node(node): [raised, ok].  "R" in formula raises TypeError on a
\* float, and mass < 50 raises TypeError on a str.
Rejected == [raised |-> "none", ok |-> FALSE]
Accepted == [raised |-> "none", ok |-> TRUE]
Raised(e) == [raised |-> e, ok |-> FALSE]

CheckFormulaAndMass(formula, mass) ==
    IF formula.raised # "none" THEN Raised(formula.raised)
    ELSE IF mass.raised # "none" THEN Raised(mass.raised)
    ELSE IF formula.value = None THEN Rejected
    ELSE IF formula.value.kind = "float" THEN Raised("TypeError")
    ELSE IF Contains(formula.value.text, <<"R">>) \/ formula.value.text = <<>>
    THEN Rejected
    ELSE IF mass.value = None THEN Rejected
    ELSE IF mass.value.kind = "str" THEN Raised("TypeError")
    ELSE IF mass.value.num < MinMass * 1000 \/ mass.value.num > MaxMass * 1000
    THEN Rejected
    ELSE Accepted

check_node(node) ==
    IF ~node.has_property_value
    THEN Rejected
    ELSE CheckFormulaAndMass(get_property_from_node(node, FORMULA),
                             get_property_from_node(node, MONOISOTOPICMASS))

\* edges_to_remove that names an edge by its two ends, without the key.
edges_to_remove_by_ends(E) ==
    {edge \in E : \E f \in E : f[1] = edge[1] /\ f[2] = edge[2]
                                 /\ f[3] \notin edge_types_to_keep}

\* edges_to_remove of remove_compound_classes_nodes
edges_to_remove(E) == {edge \in E : edge[3] \notin edge_types_to_keep}

(***************************************************************************)
(* Input graphs.                                                           *)
(***************************************************************************)
X == "CHEBI:1"
Y == "CHEBI:2"
Z == "CHEBI:3"

\* A property fact as obonet reads it: chebi/<key> "<text>" xsd
Prefix == <<"c", "h", "e", "b", "i", "/">>
Suffix == <<" ", "x", "s", "d">>
Fact(key, text) == Prefix \o key \o <<" ", "\"">> \o text \o <<"\"">> \o Suffix
\* The same fact with the quotes left out.
BareFact(key, text) == Prefix \o key \o <<" ">> \o text \o Suffix

RealCompound ==
    PropertyValue(<<Fact(FORMULA, <<"C", "6", "H", "1", "2", "O", "6">>),
                    Fact(MONOISOTOPICMASS, <<"1", "8", "0", ".", "0", "6", "3">>)>>)

\* Every directed graph on four nodes, two of them anchors (class nodes).
GenericNodes == {ISOTOPIC, OLIGOPEPTIDE, X, Y}
GenericEdges ==
    {e \in {<<u, v, "is_a">> : u \in GenericNodes, v \in GenericNodes} : e[1] # e[2]}
GenericGraphs ==
    {[nodes |-> GenericNodes, edges |-> E,
      props |-> [n \in GenericNodes |->
                    IF n \in R THEN RealCompound ELSE NoPropertyValue]] :
        E \in SUBSET GenericEdges, R \in {{X, Y}}}

\* Graphs holding every anchor of the pipeline, with the ontology's edges
\* between the peptide classes and members hanging off the anchors.
AnchorNodes ==
    {DEUTERATED, DIPEPTIDE, TRIPEPTIDE, TETRAPEPTIDE, PENTAPEPTIDE,
     OLIGOPEPTIDE, ISOTOPIC, X, Y}
AnchorEdges ==
    {<<DIPEPTIDE, OLIGOPEPTIDE, "is_a">>, <<TRIPEPTIDE, OLIGOPEPTIDE, "is_a">>,
     <<X, DIPEPTIDE, "is_a">>, <<Y, OLIGOPEPTIDE, "is_a">>,
     <<X, DEUTERATED, "is_a">>, <<X, ISOTOPIC, "is_a">>,
     <<Y, X, "is_a">>, <<Y, ISOTOPIC, "has_part">>}
AnchorGraphs ==
    {[nodes |-> AnchorNodes, edges |-> E,
      props |-> [n \in AnchorNodes |->
                    IF n \in R THEN RealCompound ELSE NoPropertyValue]] :
        E \in SUBSET AnchorEdges, R \in {{Y}, {X, Y}, {Y, ISOTOPIC}, {X, Y, ISOTOPIC}}}

NoCall == [op |-> "none"]
NoResult == [raised |-> "none"]

InitWith(g, table) ==
    /\ nodes = g.nodes
    /\ edges = g.edges
    /\ props = g.props
    /\ df = table
    /\ pc = "ready"
    /\ call = NoCall
    /\ result = NoResult
    /\ err = "none"
    /\ log = <<>>
    /\ G0 = [nodes |-> g.nodes, edges |-> g.edges]
    /\ Goligo = [nodes |-> {}, edges |-> {}]

NoTable == <<>>

Init == \E g \in GenericGraphs \cup AnchorGraphs : InitWith(g, NoTable)

(***************************************************************************)
(* Calls of get_subgraph and remove_subgraph on the loaded graph.          *)
(***************************************************************************)
CallTokens == GenericNodes \cup {DEUTERATED}

SubgraphCall(op, token, depth, undirected, reverse_graph) ==
    [op |-> op, token |-> token, depth |-> depth, undirected |-> undirected,
     reverse_graph |-> reverse_graph]

Warning(text) == <<"warning", text>>

call_get_subgraph ==
    /\ pc = "ready"
    /\ \E token \in CallTokens, depth \in 0..MaxDepth,
          undirected \in BOOLEAN, reverse_graph \in BOOLEAN :
        LET H == get_subgraph(nodes, edges, token, depth, undirected, reverse_graph)
        IN  /\ call' = SubgraphCall("get_subgraph", token, depth, undirected,
                                    reverse_graph)
            /\ result' = H
            /\ err' = H.raised
            /\ pc' = IF H.raised = "none" THEN "returned" ELSE "raised"
    /\ UNCHANGED <<nodes, edges, props, df, log, G0, Goligo>>

\* One remove_subgraph call, as every step of the pipeline makes it.
RemoveSubgraphStep(token, depth, undirected, reverse_graph, messages, next) ==
    LET r == remove_subgraph(nodes, edges, token, depth, undirected, reverse_graph)
    IN  /\ call' = SubgraphCall("remove_subgraph", token, depth, undirected,
                                reverse_graph)
        /\ nodes' = r.nodes
        /\ edges' = r.edges
        /\ props' = [n \in r.nodes |-> props[n]]
        /\ log' = log \o messages \o r.logged
        /\ err' = r.raised
        /\ pc' = IF r.raised = "none" THEN next ELSE "raised"
        /\ result' = NoResult
        /\ UNCHANGED <<df, G0, Goligo>>

call_remove_subgraph ==
    /\ pc = "ready"
    /\ \E token \in CallTokens, depth \in 0..MaxDepth,
          undirected \in BOOLEAN, reverse_graph \in BOOLEAN :
        RemoveSubgraphStep(token, depth, undirected, reverse_graph, <<>>, "returned")

(***************************************************************************)
(* prepare(), one action per call it makes, in the order of the code.      *)
(***************************************************************************)
prepare ==
    /\ pc = "ready"
    /\ pc' = "remove_deuterated_compounds"
    /\ call' = [op |-> "prepare"]
    /\ UNCHANGED <<nodes, edges, props, df, result, err, log, G0, Goligo>>

remove_deuterated_compounds ==
    /\ pc = "remove_deuterated_compounds"
    /\ RemoveSubgraphStep(DEUTERATED, 1, TRUE, TRUE,
                          <<Warning("Removing deuterated compounds")>>,
                          "remove_oligopeptides")

remove_oligopeptides ==
    /\ pc = "remove_oligopeptides"
    /\ pc' = "remove_dipeptides"
    /\ log' = Append(log, Warning("Removing oligopeptides"))
    /\ Goligo' = [nodes |-> nodes, edges |-> edges]
    /\ call' = [op |-> "remove_oligopeptides"]
    /\ UNCHANGED <<nodes, edges, props, df, result, err, G0>>

remove_dipeptides ==
    /\ pc = "remove_dipeptides"
    /\ RemoveSubgraphStep(DIPEPTIDE, 1, TRUE, TRUE,
                          <<Warning("Removing dipeptides")>>, "remove_tripeptides")

remove_tripeptides ==
    /\ pc = "remove_tripeptides"
    /\ RemoveSubgraphStep(TRIPEPTIDE, 1, TRUE, TRUE,
                          <<Warning("Removing tripeptides")>>, "remove_tetrapeptides")

remove_tetrapeptides ==
    /\ pc = "remove_tetrapeptides"
    /\ RemoveSubgraphStep(TETRAPEPTIDE, 1, TRUE, TRUE,
                          <<Warning("Removing tetrapeptides")>>, "remove_pentapeptides")

remove_pentapeptides ==
    /\ pc = "remove_pentapeptides"
    /\ RemoveSubgraphStep(PENTAPEPTIDE, 1, TRUE, TRUE,
                          <<Warning("Removing pentapeptides")>>,
                          "remove_oligopeptide_class")

\* The last statement of remove_oligopeptides.
remove_oligopeptide_class ==
    /\ pc = "remove_oligopeptide_class"
    /\ RemoveSubgraphStep(OLIGOPEPTIDE, 1, TRUE, TRUE, <<>>,
                          "remove_compound_classes_nodes")

\* remove_compound_classes_nodes up to G.remove_nodes_from(nodes_to_remove).
\* check_node runs on the nodes in the graph's own order; when several
\* nodes make it raise, which one is met first is up to that order.
FilterNodes(checked) ==
    IF \E n \in nodes : checked[n].raised # "none"
    THEN /\ \E n \in nodes : checked[n].raised # "none" /\ err' = checked[n].raised
         /\ pc' = "raised"
         /\ UNCHANGED <<nodes, edges, props>>
    ELSE LET g == remove_nodes_from(nodes, edges, {n \in nodes : ~checked[n].ok})
         IN  /\ nodes' = g.nodes
             /\ edges' = g.edges
             /\ props' = [n \in g.nodes |-> props[n]]
             /\ err' = "none"
             /\ pc' = "remove_compound_classes_edges"

remove_compound_classes_nodes ==
    /\ pc = "remove_compound_classes_nodes"
    /\ log' = Append(log, Warning("Removing compound classes nodes"))
    /\ call' = [op |-> "remove_compound_classes_nodes"]
    /\ FilterNodes([n \in nodes |-> check_node(props[n])])
    /\ UNCHANGED <<df, result, G0, Goligo>>

\* The rest of remove_compound_classes_nodes: the edge filter.
remove_compound_classes_edges ==
    /\ pc = "remove_compound_classes_edges"
    /\ edges' = remove_edges_from(edges, edges_to_remove(edges))
    /\ pc' = "remove_isotopically_modified_compounds"
    /\ UNCHANGED <<nodes, props, df, call, result, err, log, G0, Goligo>>

remove_isotopically_modified_compounds ==
    /\ pc = "remove_isotopically_modified_compounds"
    /\ RemoveSubgraphStep(ISOTOPIC, 2, FALSE, TRUE,
                          <<Warning("Removing isotopically modified compounds")>>,
                          "done")

Pipeline ==
    \/ prepare
    \/ remove_deuterated_compounds
    \/ remove_oligopeptides
    \/ remove_dipeptides
    \/ remove_tripeptides
    \/ remove_tetrapeptides
    \/ remove_pentapeptides
    \/ remove_oligopeptide_class
    \/ remove_compound_classes_nodes
    \/ remove_compound_classes_edges
    \/ remove_isotopically_modified_compounds

Next ==
    \/ call_get_subgraph
    \/ call_remove_subgraph
    \/ Pipeline

\* The graph calls and prepare() on the generic and the anchor graphs.
Spec == Init /\ [][Next]_vars

(***************************************************************************)
(* prepare() on graphs whose node X carries every kind of property list.   *)
(***************************************************************************)
C6H12O6 == <<"C", "6", "H", "1", "2", "O", "6">>

FormulaChoices ==
    {<<>>,
     <<Fact(FORMULA, C6H12O6)>>,
     <<Fact(FORMULA, <<"R", "-", "C", "H", "3">>)>>,
     <<Fact(FORMULA, <<>>)>>,
     <<Fact(FORMULA, <<"1", "2">>)>>,
     <<BareFact(FORMULA, C6H12O6)>>}

MassChoices ==
    {<<>>,
     <<Fact(MONOISOTOPICMASS, <<"4", "9", ".", "9", "9", "9">>)>>,
     <<Fact(MONOISOTOPICMASS, <<"5", "0">>)>>,
     <<Fact(MONOISOTOPICMASS, <<"1", "8", "0", ".", "0", "6", "3">>)>>,
     <<Fact(MONOISOTOPICMASS, <<"1", "5", "0", "0">>)>>,
     <<Fact(MONOISOTOPICMASS, <<"1", "5", "0", "0", ".", "0", "0", "1">>)>>,
     <<Fact(MONOISOTOPICMASS, <<"2", "0", "0", "0">>)>>,
     <<Fact(MONOISOTOPICMASS, <<"a", "b", "c">>)>>,
     <<BareFact(MONOISOTOPICMASS, <<"5", "0">>)>>}

FilterData ==
    {NoPropertyValue} \cup
    {PropertyValue(f \o m) : f \in FormulaChoices, m \in MassChoices}

FilterNodeSet == {X, Y, Z}
FilterEdges ==
    {<<X, Y, "is_a">>, <<X, Y, "has_part">>, <<X, Y, "is_enantiomer_of">>,
     <<Y, X, "is_conjugate_acid_of">>, <<Y, X, "has_role">>,
     <<Y, Z, "is_conjugate_base_of">>, <<Y, Z, "has_part">>,
     <<Z, Y, "is_tautomer_of">>}
FilterGraphs ==
    {[nodes |-> FilterNodeSet, edges |-> E,
      props |-> [n \in FilterNodeSet |-> IF n = X THEN d ELSE RealCompound]] :
        E \in SUBSET FilterEdges, d \in FilterData}

InitFilter == \E g \in FilterGraphs : InitWith(g, NoTable)

SpecFilter == InitFilter /\ [][Pipeline]_vars

(***************************************************************************)
(* get_property_from_node on a node with any short list of facts.          *)
(***************************************************************************)
PropertyFacts ==
    {Fact(FORMULA, C6H12O6),
     Fact(FORMULA, <<"1", "2">>),
     Fact(FORMULA, <<>>),
     BareFact(FORMULA, C6H12O6),
     Prefix \o FORMULA \o <<" ", "\"">> \o C6H12O6,
     Fact(MONOISOTOPICMASS, <<"1", "8", "0", ".", "0", "6", "3">>),
     Fact(MONOISOTOPICMASS, <<"a", "b", "c">>),
     Fact(MASS, <<"1", "8", "0", ".", "1", "6">>),
     Fact(CHARGE, <<"-", "1">>)}

RECURSIVE FactLists(_)
FactLists(n) ==
    IF n = 0 THEN {<<>>}
    ELSE LET shorter == FactLists(n - 1)
         IN  shorter \cup {Append(l, f) : l \in shorter, f \in PropertyFacts}

PropertyGraphs ==
    {[nodes |-> {X}, edges |-> {}, props |-> [n \in {X} |-> d]] :
        d \in {NoPropertyValue} \cup {PropertyValue(l) : l \in FactLists(MaxFacts)}}

InitProperty == \E g \in PropertyGraphs : InitWith(g, NoTable)

call_get_property_from_node ==
    /\ pc = "ready"
    /\ \E token \in nodes, prop \in {FORMULA, MONOISOTOPICMASS, MASS, CHARGE} :
        LET r == get_property_from_node(props[token], prop)
        IN  /\ call' = [op |-> "get_property_from_node", token |-> token,
                        prop |-> prop]
            /\ result' = r
            /\ err' = r.raised
            /\ pc' = IF r.raised = "none" THEN "returned" ELSE "raised"
    /\ UNCHANGED <<nodes, edges, props, df, log, G0, Goligo>>

SpecProperty == InitProperty /\ [][call_get_property_from_node]_vars

(***************************************************************************)
(* ChEBIGraph.get_reference_chebi_of_group on an attribute table.          *)
(* A row of self.df holds the charge (a float, or NaN when the node has    *)
(* no charge fact) and the name.                                           *)
(***************************************************************************)
NaN == [kind |-> "nan"]
MISSING == "CHEBI:4"

Abs(n) == IF n < 0 THEN 0 - n ELSE n

\* data.charge.abs()
AbsCharge(charge) == IF charge = NaN THEN NaN ELSE Float(Abs(charge.num))

\* self.df.loc[group_ids] with the three derived columns
Candidate(table, id) ==
    [id |-> id,
     name |-> table[id].name,
     abs_charge |-> AbsCharge(table[id].charge),
     name_alpha |-> ~IsAlpha(RemoveSpaces(table[id].name)),
     name_length |-> Len(table[id].name)]

Loc(table, group_ids) == [i \in 1..Len(group_ids) |-> Candidate(table, group_ids[i])]

\* The sort key of sort_values(["name_alpha", "name_length"]): False sorts
\* before True.
SortsBefore(a, b) ==
    \/ ~a.name_alpha /\ b.name_alpha
    \/ a.name_alpha = b.name_alpha /\ a.name_length < b.name_length

\* Stable insertion of row r into the sorted rows.
RECURSIVE Insert(_, _)
Insert(rows, r) ==
    IF rows = <<>> THEN <<r>>
    ELSE IF SortsBefore(r, Head(rows)) THEN <<r>> \o rows
    ELSE <<Head(rows)>> \o Insert(Tail(rows), r)

RECURSIVE sort_values(_)
sort_values(rows) ==
    IF rows = <<>> THEN <<>>
    ELSE Insert(sort_values(SubSeq(rows, 1, Len(rows) - 1)), rows[Len(rows)])

\* The keys of groupby(["abs_charge", "name_alpha"]): rows whose key holds a
\* NaN belong to no group.
GroupKeys(rows) ==
    {<<rows[i].abs_charge.num, rows[i].name_alpha>> :
        i \in {j \in 1..Len(rows) : rows[j].abs_charge # NaN}}

KeyBefore(k, l) == k[1] < l[1] \/ (k[1] = l[1] /\ ~k[2] /\ l[2])

\* The first group in the ascending order of the keys.
FirstKey(keys) == CHOOSE k \in keys : \A l \in keys \ {k} : KeyBefore(k, l)

InGroup(row, key) ==
    row.abs_charge # NaN /\ <<row.abs_charge.num, row.name_alpha>> = key

NonePair == [raised |-> "none", found |-> FALSE, id |-> "None", name |-> <<>>]
Pair(id, name) == [raised |-> "none", found |-> TRUE, id |-> id, name |-> name]

\* for ndx, grp in grps: return grp.index[0], grp.name[0]
FirstOfFirstGroup(rows, keys) ==
    IF keys = {} THEN NonePair
    ELSE LET first == SelectSeq(rows, LAMBDA r : InGroup(r, FirstKey(keys)))[1]
         IN  Pair(first.id, first.name)

GroupOfSorted(rows) == FirstOfFirstGroup(rows, GroupKeys(rows))

GroupRaised(e) == [raised |-> e, found |-> FALSE, id |-> "None", name |-> <<>>]

\* What the call can come to.  .loc raises KeyError when a label of the list
\* is not in the index.  A charge column without a single number is an
\* object column of None, on which abs() raises TypeError once it has a row;
\* whether the table holds NaN or None there is up to how it was built.
get_reference_chebi_of_group(table, group_ids) ==
    IF \E i \in 1..Len(group_ids) : group_ids[i] \notin DOMAIN table
    THEN {GroupRaised("KeyError")}
    ELSE {GroupOfSorted(sort_values(Loc(table, group_ids)))} \cup
         IF group_ids # <<>> /\ \A id \in DOMAIN table : table[id].charge = NaN
         THEN {GroupRaised("TypeError")}
         ELSE {}

TableIds == {X, Y, Z}
Names == {<<"a", "b">>, <<"a", "b", "c">>, <<"a", " ", "b">>, <<"D", "-", "a">>}
Charges == {Float(0), Float(0 - 1000), Float(1000), NaN}
TableRows == [charge : Charges, name : Names]
Tables == [TableIds -> TableRows]

RECURSIVE IdLists(_)
IdLists(n) ==
    IF n = 0 THEN {<<>>}
    ELSE LET shorter == IdLists(n - 1)
         IN  shorter \cup {Append(l, id) : l \in shorter, id \in TableIds \cup {MISSING}}

NoGraph == [nodes |-> {}, edges |-> {}, props |-> <<>>]

InitGroup == \E table \in Tables : InitWith(NoGraph, table)

call_get_reference_chebi_of_group ==
    /\ pc = "ready"
    /\ \E group_ids \in IdLists(MaxGroup) :
        \E r \in get_reference_chebi_of_group(df, group_ids) :
            /\ call' = [op |-> "get_reference_chebi_of_group",
                        group_ids |-> group_ids]
            /\ result' = r
            /\ err' = r.raised
            /\ pc' = IF r.raised = "none" THEN "returned" ELSE "raised"
    /\ UNCHANGED <<nodes, edges, props, df, log, G0, Goligo>>

SpecGroup == InitGroup /\ [][call_get_reference_chebi_of_group]_vars

(***************************************************************************)
(* The claims.                                                             *)
(***************************************************************************)
Logged(text) == Warning(text) \in Range(log)

\* C1: in every run of prepare() the removal of the isotopically modified
\* compounds has been made before remove_compound_classes_nodes starts to
\* filter nodes and edges.
C1_IsotopicRemovalBeforeClassFilter ==
    Logged("Removing compound classes nodes")
        => Logged("Removing isotopically modified compounds")

\* C2: in every state during and after prepare() (and after any removal)
\* every edge joins two nodes of the graph, and the nodes are a subset of the
\* nodes the graph had at first, so their number never grows.
C2_EdgesAttachedNodesOnlyShrink ==
    /\ \A e \in edges : e[1] \in nodes /\ e[2] \in nodes
    /\ nodes \subseteq G0.nodes
    /\ Cardinality(nodes) <= Cardinality(G0.nodes)

\* prepare() has run to its end, removed nodes and the edges at them, and
\* left nodes and edges behind.
C2_Witness ==
    /\ pc = "done"
    /\ nodes # {} /\ edges # {}
    /\ \E e \in G0.edges : e[1] \notin nodes /\ e[2] \in nodes

PipelinePositions ==
    {"remove_deuterated_compounds", "remove_oligopeptides", "remove_dipeptides",
     "remove_tripeptides", "remove_tetrapeptides", "remove_pentapeptides",
     "remove_oligopeptide_class", "remove_compound_classes_nodes",
     "remove_compound_classes_edges", "remove_isotopically_modified_compounds"}

\* C3: a remove_subgraph call whose anchor is not in the graph, whatever its
\* depth, undirected and reverse_graph, changes neither nodes nor edges, logs
\* the NodeNotFound and returns normally; no NodeNotFound ever leaves
\* remove_subgraph or prepare(), and prepare() moves on to its next step.
C3_AbsentAnchorIsSkipped ==
    /\ [](err = "NodeNotFound" => call.op = "get_subgraph")
    /\ [][(call' # call /\ call'.op = "remove_subgraph" /\ call'.token \notin nodes)
            => /\ nodes' = nodes /\ edges' = edges /\ props' = props
               /\ err' = "none"
               /\ NodeNotFoundMessage(call'.token) = log'[Len(log')]
               /\ IF pc = "ready"
                  THEN pc' = "returned"
                  ELSE pc' \in (PipelinePositions \cup {"done"}) \ {pc}]_vars

\* prepare() skipped the deuterated anchor, which the graph does not hold,
\* and a later step removed the oligopeptide anchor's neighbourhood.
C3_Witness ==
    /\ pc = "done"
    /\ NodeNotFoundMessage(DEUTERATED) \in Range(log)
    /\ NodeNotFoundMessage(OLIGOPEPTIDE) \notin Range(log)
    /\ OLIGOPEPTIDE \in Goligo.nodes
    /\ Cardinality(Goligo.nodes \ nodes) >= 2

\* n reaches root along at most d edges of E, followed from source to target.
RECURSIVE ReachesWithin(_, _, _, _)
ReachesWithin(E, n, root, d) ==
    \/ n = root
    \/ d > 0 /\ \E e \in E : e[1] = n /\ ReachesWithin(E, e[2], root, d - 1)

\* C4: get_subgraph(root, depth=d, undirected=False, reverse_graph=True) on a
\* root of the graph returns exactly the nodes from which root is reached by a
\* directed path of at most d edges of the graph, root included; with d = 0
\* that is {root}.
C4_ReversedSubgraphIsAncestorsWithinDepth ==
    (/\ call.op = "get_subgraph"
     /\ ~call.undirected /\ call.reverse_graph
     /\ call.token \in nodes)
        => /\ result.raised = "none"
           /\ result.nodes =
                {n \in nodes : ReachesWithin(edges, n, call.token, call.depth)}
           /\ call.depth = 0 => result.nodes = {call.token}

\* A call with depth 2 that returned the root, a parent and a grandparent,
\* left out a node three edges away and left out a node the root points to.
C4_Witness ==
    /\ call.op = "get_subgraph"
    /\ ~call.undirected /\ call.reverse_graph
    /\ call.depth = 2
    /\ Cardinality(result.nodes) = 3
    /\ \E n \in nodes \ result.nodes : ReachesWithin(edges, n, call.token, 3)
    /\ \E e \in edges : e[1] = call.token /\ e[2] \notin result.nodes

\* is_real_compound as the specification words it, on the parsed values.
is_real_compound(formula, mass) ==
    /\ formula.kind # "None"
    /\ formula.kind = "str" => formula.text # <<>> /\ ~Contains(formula.text, <<"R">>)
    /\ mass.kind = "float"
    /\ mass.num >= MinMass * 1000 /\ mass.num <= MaxMass * 1000

IsRealCompound(node) ==
    /\ node.has_property_value
    /\ is_real_compound(get_property_from_node(node, FORMULA).value,
                        get_property_from_node(node, MONOISOTOPICMASS).value)

\* C5: the node filter of remove_compound_classes_nodes yields a verdict for
\* every node, whatever its parsed formula and mass are, and keeps exactly
\* the nodes for which is_real_compound holds.
C5_ClassFilterKeepsExactlyRealCompounds ==
    [][pc = "remove_compound_classes_nodes"
        => /\ err' = "none"
           /\ nodes' = {n \in nodes : IsRealCompound(props[n])}]_vars

RetainedRelationTypes ==
    {"is_a", "is_conjugate_acid_of", "is_conjugate_base_of", "is_enantiomer_of",
     "is_tautomer_of"}

\* C6: the edge filter keeps exactly the edges whose relation type is one of
\* is_a, is_conjugate_acid_of, is_conjugate_base_of, is_enantiomer_of,
\* is_tautomer_of, also among several edges of one ordered pair, and leaves
\* the node set as it was.
C6_EdgeFilterKeepsRetainedTypes ==
    [][pc = "remove_compound_classes_edges"
        => /\ nodes' = nodes
           /\ edges' = {e \in edges : e[3] \in RetainedRelationTypes}]_vars

\* The edge filter has run on a pair of surviving nodes joined by edges of
\* several types: one of them is kept and one is gone.
C6_Witness ==
    /\ pc = "remove_isotopically_modified_compounds"
    /\ \E e \in edges, f \in G0.edges \ edges :
        e[1] = f[1] /\ e[2] = f[2] /\ e[3] # f[3] /\ f[1] \in nodes /\ f[2] \in nodes

\* a comes strictly before b in the order (abs(charge), name not simple,
\* name length); a comparison with an absent charge is false.
StrictlyPreferred(a, b) ==
    \/ a.abs_charge # NaN /\ b.abs_charge # NaN /\ a.abs_charge.num < b.abs_charge.num
    \/ /\ a.abs_charge = b.abs_charge
       /\ \/ ~a.name_alpha /\ b.name_alpha
          \/ a.name_alpha = b.name_alpha /\ a.name_length < b.name_length

\* C7: for a non-empty list of ids that are all in the table,
\* get_reference_chebi_of_group returns the (id, name) of a candidate that no
\* other candidate precedes in the order (abs(charge), name not simple, name
\* length), whatever the charges are, absent ones included.
C7_ReferenceIsMinimalCandidate ==
    (/\ call.op = "get_reference_chebi_of_group"
     /\ call.group_ids # <<>>
     /\ Range(call.group_ids) \subseteq DOMAIN df)
        => /\ err = "none"
           /\ result.found
           /\ \E i \in DOMAIN call.group_ids :
                LET c == Candidate(df, call.group_ids[i])
                IN  /\ c.id = result.id /\ c.name = result.name
                    /\ \A j \in DOMAIN call.group_ids :
                        ~StrictlyPreferred(Candidate(df, call.group_ids[j]), c)

\* C8: get_reference_chebi_of_group returns (None, None) and does not raise
\* when the list of ids is empty and when none of the ids is in the table.
C8_NoCandidateGivesNonePair ==
    (/\ call.op = "get_reference_chebi_of_group"
     /\ Range(call.group_ids) \cap DOMAIN df = {})
        => err = "none" /\ result = NonePair

\* C9: get_property_from_node returns normally for every node and key, with
\* None when the node has no property list or no fact holds the key, and
\* with the raw text when the matching fact holds no number.
C9_PropertyParserNeverRaises ==
    call.op = "get_property_from_node"
        => /\ err = "none"
           /\ (\/ ~props[call.token].has_property_value
               \/ \A i \in DOMAIN props[call.token].property_value :
                    ~FactMatches(props[call.token].property_value[i], call.prop))
                => result.value = None

OligopeptideAnchors ==
    {DIPEPTIDE, TRIPEPTIDE, TETRAPEPTIDE, PENTAPEPTIDE, OLIGOPEPTIDE}

\* C10: when remove_oligopeptides has run on a graph holding all five
\* anchors, no node that was within one hop, in either direction, of one of
\* the anchors is left in the graph.
C10_NoAnchorNeighbourSurvives ==
    (pc = "remove_compound_classes_nodes" /\ OligopeptideAnchors \subseteq Goligo.nodes)
        => \A a \in OligopeptideAnchors :
            WithinCutoff(ToUndirected(Goligo.edges), {a}, 1) \cap nodes = {}

====
